---- MODULE Spec2Model ----
(***************************************************************************)
(* Model of badge/apps/heartrate/__init__.py: the heart-rate monitor app   *)
(* of the badge.  The host sets io.ticks and io.pressed and calls update() *)
(* once per frame; it may call on_exit() at any time.                      *)
(***************************************************************************)
EXTENDS Integers, Sequences, FiniteSets, TLC

VARIABLES
    state,                \* the module-level dict `state`
    io,                   \* io.ticks and io.pressed as update() last saw them
    BLUETOOTH_AVAILABLE,  \* result of the import at module load
    call,                 \* the hook the host called last
    ret,                  \* what the last update() returned
    display,              \* what the last update() drew
    ref,                  \* a second app, put back to the initial state at every on_exit
    press_tick,           \* tick of the action press in the degraded-mode scenario, -1 before it
    refreshes,            \* ticks of the last two recomputations of the reading, -1 for none
    parse                 \* the last call of _parse_heart_rate: its argument and its result

vars ==
    <<state, io, BLUETOOTH_AVAILABLE, call, ret, display, ref, press_tick,
      refreshes, parse>>

----------------------------------------------------------------------------
(* Bounds *)

\* Longest byte sequence handed to _parse_heart_rate.
MaxDataLen == 4

\* Largest tick value the host hands to update().
MaxTick == 7000

\* Tick values of the frames: around every half second, and MaxTick itself.
TickValues == {t \in 0..MaxTick : (t % 500) \in {0, 499} \/ t = MaxTick}

----------------------------------------------------------------------------
(* Buttons *)

BUTTON_A == "A"
BUTTON_B == "B"
BUTTON_HOME == "HOME"

Buttons == {BUTTON_A, BUTTON_B, BUTTON_HOME}

----------------------------------------------------------------------------
(* The state record *)

InitialState ==
    [heart_rate     |-> 0,
     is_connected   |-> FALSE,
     is_scanning    |-> FALSE,
     scan_start     |-> 0,
     scan_duration  |-> 3000,
     hr_update_time |-> 0,
     devices_found  |-> <<>>]

\* The half-second window of _simulate_hr_reading.
HrUpdateInterval == 500

\* Width of the full progress bar.
ProgressBarWidth == 140

\* int(math.sin(now / 1000.0) * 8) is a step function of the integer now; these
\* are its steps <<first tick, value>> for now in 0 .. 9299, as the double
\* arithmetic of the code yields them (int truncates toward zero).
SinSteps ==
    << <<0, 0>>, <<126, 1>>, <<253, 2>>, <<385, 3>>, <<524, 4>>, <<676, 5>>,
       <<849, 6>>, <<1066, 7>>, <<2077, 6>>, <<2294, 5>>, <<2467, 4>>,
       <<2618, 3>>, <<2758, 2>>, <<2889, 1>>, <<3017, 0>>, <<3267, -1>>,
       <<3395, -2>>, <<3526, -3>>, <<3666, -4>>, <<3817, -5>>, <<3990, -6>>,
       <<4208, -7>>, <<5218, -6>>, <<5436, -5>>, <<5609, -4>>, <<5760, -3>>,
       <<5899, -2>>, <<6031, -1>>, <<6158, 0>>, <<6409, 1>>, <<6536, 2>>,
       <<6668, 3>>, <<6807, 4>>, <<6959, 5>>, <<7132, 6>>, <<7349, 7>>,
       <<8360, 6>>, <<8577, 5>>, <<8750, 4>>, <<8902, 3>>, <<9041, 2>>,
       <<9173, 1>> >>

variation(now) ==
    LET i == CHOOSE k \in 1..Len(SinSteps) :
                 /\ SinSteps[k][1] <= now
                 /\ (k = Len(SinSteps) \/ now < SinSteps[k + 1][1])
    IN  SinSteps[i][2]

----------------------------------------------------------------------------
(* The functions of the module *)

_start_scan(s, bt, now) ==
    IF ~bt
    THEN s
    ELSE [s EXCEPT !.is_scanning = TRUE,
                   !.scan_start = now,
                   !.devices_found = <<>>]

\* The value that stands for Python's None in the result of _parse_heart_rate.
None == -1

\* x & y and x | y of Python for non-negative integers.
RECURSIVE BitAnd(_, _)
BitAnd(x, y) ==
    IF x = 0 \/ y = 0
    THEN 0
    ELSE 2 * BitAnd(x \div 2, y \div 2) + (IF x % 2 = 1 /\ y % 2 = 1 THEN 1 ELSE 0)

RECURSIVE BitOr(_, _)
BitOr(x, y) ==
    IF x = 0 /\ y = 0
    THEN 0
    ELSE 2 * BitOr(x \div 2, y \div 2) + (IF x % 2 = 1 \/ y % 2 = 1 THEN 1 ELSE 0)

\* _parse_heart_rate reading the 16-bit value with the high byte first.
_parse_heart_rate_big_endian(data) ==
    IF Len(data) < 2
    THEN None
    ELSE IF BitAnd(data[1], 1) = 0
         THEN data[2]
         ELSE IF Len(data) >= 3
              THEN BitOr(data[2] * 256, data[3])
              ELSE None

\* data[i] of Python is data[i + 1] here; (x << 8) is x * 256.
_parse_heart_rate(data) ==
    IF Len(data) < 2
    THEN None
    ELSE IF BitAnd(data[1], 1) = 0
         THEN data[2]
         ELSE IF Len(data) >= 3
              THEN BitOr(data[3] * 256, data[2])
              ELSE None

\* _simulate_hr_reading without the record of the time of the refresh.
_simulate_hr_reading_keeps_time(s, now) ==
    IF now - s.hr_update_time >= HrUpdateInterval
    THEN [s EXCEPT !.heart_rate = 72 + variation(now)]
    ELSE s

\* _simulate_hr_reading with a strict comparison of the window.
_simulate_hr_reading_strict(s, now) ==
    IF now - s.hr_update_time > HrUpdateInterval
    THEN [s EXCEPT !.heart_rate = 72 + variation(now),
                   !.hr_update_time = now]
    ELSE s

_simulate_hr_reading(s, now) ==
    IF now - s.hr_update_time >= HrUpdateInterval
    THEN [s EXCEPT !.heart_rate = 72 + variation(now),
                   !.hr_update_time = now]
    ELSE s

\* The action button starting a scan whenever the app is not connected.
update_buttons_restarts_scan(s, bt, pressed, now) ==
    IF BUTTON_A \in pressed
    THEN IF ~s.is_connected
         THEN _start_scan(s, bt, now)
         ELSE [s EXCEPT !.is_connected = FALSE, !.heart_rate = 0]
    ELSE s

\* The action button with two independent tests, the disconnect first.
update_buttons_two_ifs(s, bt, pressed, now) ==
    LET d == IF BUTTON_A \in pressed /\ s.is_connected
             THEN [s EXCEPT !.is_connected = FALSE, !.heart_rate = 0]
             ELSE s
    IN  IF BUTTON_A \in pressed /\ ~d.is_connected /\ ~d.is_scanning
        THEN _start_scan(d, bt, now)
        ELSE d

\* update(), lines 96-103: the action button.
update_buttons(s, bt, pressed, now) ==
    IF BUTTON_A \in pressed
    THEN IF ~s.is_connected /\ ~s.is_scanning
         THEN _start_scan(s, bt, now)
         ELSE IF s.is_connected
              THEN [s EXCEPT !.is_connected = FALSE, !.heart_rate = 0]
              ELSE s
    ELSE s

\* The scan timeout without the reset of is_scanning.
update_scan_timeout_keeps_scanning(s, now) ==
    IF s.is_scanning /\ now - s.scan_start >= s.scan_duration
    THEN [s EXCEPT !.is_connected = TRUE,
                   !.hr_update_time = now]
    ELSE s

\* The scan timeout with a strict comparison of the elapsed time.
update_scan_timeout_strict(s, now) ==
    IF s.is_scanning /\ now - s.scan_start > s.scan_duration
    THEN [s EXCEPT !.is_scanning = FALSE,
                   !.is_connected = TRUE,
                   !.hr_update_time = now]
    ELSE s

\* update(), lines 115-121: the scan timeout.
update_scan_timeout(s, now) ==
    IF s.is_scanning /\ now - s.scan_start >= s.scan_duration
    THEN [s EXCEPT !.is_scanning = FALSE,
                   !.is_connected = TRUE,
                   !.hr_update_time = now]
    ELSE s

\* update(), lines 124-125: the reading is refreshed while connected.
update_heart_rate(s, now) ==
    IF s.is_connected THEN _simulate_hr_reading(s, now) ELSE s

\* What a frame that returns before drawing leaves on the cleared screen.
NoView == [view |-> "none", hr_text |-> 0, dots |-> 0, progress_bar_w |-> 0]

\* The views with the width of the progress bar rounded to the nearest pixel.
update_view_rounded(s, now) ==
    IF s.is_connected
    THEN [NoView EXCEPT !.view = "connected", !.hr_text = s.heart_rate]
    ELSE IF s.is_scanning
         THEN [NoView EXCEPT !.view = "scanning",
                             !.dots = (((now - s.scan_start) \div 500) % 4) + 1,
                             !.progress_bar_w =
                                 (2 * ProgressBarWidth * (now - s.scan_start)
                                      + s.scan_duration)
                                     \div (2 * s.scan_duration)]
         ELSE [NoView EXCEPT !.view = "idle"]

\* update(), lines 124-154: the view drawn for the state s.
update_view(s, now) ==
    IF s.is_connected
    THEN [NoView EXCEPT !.view = "connected", !.hr_text = s.heart_rate]
    ELSE IF s.is_scanning
         THEN [NoView EXCEPT !.view = "scanning",
                             !.dots = (((now - s.scan_start) \div 500) % 4) + 1,
                             !.progress_bar_w =
                                 (ProgressBarWidth * (now - s.scan_start))
                                     \div s.scan_duration]
         ELSE [NoView EXCEPT !.view = "idle"]

\* update() choosing the view before the scan-timeout check.
update_view_before_timeout(s, bt, pressed, now) ==
    LET s1 == update_buttons(s, bt, pressed, now)
        s2 == update_scan_timeout(s1, now)
        s3 == update_heart_rate(s2, now)
    IN  IF BUTTON_HOME \in pressed
        THEN [state |-> s1, ret |-> FALSE, display |-> NoView]
        ELSE [state |-> s3, ret |-> TRUE, display |-> update_view(s1, now)]

\* update() with the Home test in an else branch of the action-button test.
update_home_in_else(s, bt, pressed, now) ==
    LET s1 == update_buttons(s, bt, pressed, now)
        s2 == update_scan_timeout(s1, now)
        s3 == update_heart_rate(s2, now)
    IN  IF BUTTON_HOME \in pressed /\ BUTTON_A \notin pressed
        THEN [state |-> s1, ret |-> FALSE, display |-> NoView]
        ELSE [state |-> s3, ret |-> TRUE, display |-> update_view(s3, now)]

\* update(): the state it leaves, its return value and what it drew.
update(s, bt, pressed, now) ==
    LET s1 == update_buttons(s, bt, pressed, now)
        s2 == update_scan_timeout(s1, now)
        s3 == update_heart_rate(s2, now)
    IN  IF BUTTON_HOME \in pressed
        THEN [state |-> s1, ret |-> FALSE, display |-> NoView]
        ELSE [state |-> s3, ret |-> TRUE, display |-> update_view(s3, now)]

\* on_exit without the reset of heart_rate.
on_exit_keeps_reading(s) ==
    [s EXCEPT !.is_connected = FALSE,
              !.is_scanning = FALSE]

\* on_exit without the reset of is_scanning.
on_exit_keeps_scanning(s) ==
    [s EXCEPT !.is_connected = FALSE,
              !.heart_rate = 0]

on_exit(s) ==
    [s EXCEPT !.is_connected = FALSE,
              !.is_scanning = FALSE,
              !.heart_rate = 0]

----------------------------------------------------------------------------
(* The host: one frame per update() call, ticks never decreasing *)

Init ==
    /\ state = InitialState
    /\ io = [ticks |-> 0, pressed |-> {}]
    /\ BLUETOOTH_AVAILABLE \in BOOLEAN
    /\ call = "init"
    /\ ret = TRUE
    /\ display = NoView
    /\ ref = [state |-> InitialState, ret |-> TRUE, display |-> NoView]
    /\ press_tick = -1
    /\ refreshes = [prev |-> -1, last |-> -1]
    /\ parse = [data |-> <<>>, value |-> None]

\* The host sets io and calls update().
Frame(pressed, now) ==
    LET r == update(state, BLUETOOTH_AVAILABLE, pressed, now)
    IN  /\ now >= io.ticks
        /\ io' = [ticks |-> now, pressed |-> pressed]
        /\ state' = r.state
        /\ ret' = r.ret
        /\ display' = r.display
        /\ call' = "update"
        /\ UNCHANGED <<BLUETOOTH_AVAILABLE, parse>>

Update ==
    \E pressed \in SUBSET Buttons, now \in TickValues :
        /\ Frame(pressed, now)
        /\ UNCHANGED <<ref, press_tick, refreshes>>

OnExit ==
    /\ state' = on_exit(state)
    /\ call' = "on_exit"
    /\ UNCHANGED <<io, BLUETOOTH_AVAILABLE, ret, display, ref, press_tick,
                   refreshes, parse>>

Next == Update \/ OnExit

Spec == Init /\ [][Next]_vars

----------------------------------------------------------------------------
(* The host keeps calling update(): frames without Home, and frames whose  *)
(* tick is later than the one before, are not postponed forever.  The      *)
(* frames of this specification come about every second.                   *)

FairTickValues == {t \in TickValues : (t % 1000) \in {0, 499} \/ t = MaxTick}

FairUpdate ==
    \E pressed \in SUBSET Buttons, now \in FairTickValues :
        /\ Frame(pressed, now)
        /\ UNCHANGED <<ref, press_tick, refreshes>>

UpdateNoHome ==
    \E pressed \in SUBSET (Buttons \ {BUTTON_HOME}), now \in FairTickValues :
        /\ Frame(pressed, now)
        /\ UNCHANGED <<ref, press_tick, refreshes>>

UpdateAdvance ==
    \E pressed \in SUBSET (Buttons \ {BUTTON_HOME}), now \in FairTickValues :
        /\ now > io.ticks
        /\ Frame(pressed, now)
        /\ UNCHANGED <<ref, press_tick, refreshes>>

FairNext == FairUpdate \/ OnExit

FairSpec ==
    Init /\ [][FairNext]_vars /\ WF_vars(UpdateAdvance) /\ WF_vars(UpdateNoHome)

----------------------------------------------------------------------------
(* The app next to a second one that gets the same frames and is put back  *)
(* to the state of a freshly loaded module whenever the host calls         *)
(* on_exit().                                                              *)

ExitUpdate ==
    \E pressed \in SUBSET Buttons, now \in TickValues :
        /\ Frame(pressed, now)
        /\ ref' = update(ref.state, BLUETOOTH_AVAILABLE, pressed, now)
        /\ UNCHANGED <<press_tick, refreshes>>

ExitOnExit ==
    /\ state' = on_exit(state)
    /\ call' = "on_exit"
    /\ ref' = [ref EXCEPT !.state = InitialState]
    /\ UNCHANGED <<io, BLUETOOTH_AVAILABLE, ret, display, press_tick,
                   refreshes, parse>>

ExitNext == ExitUpdate \/ ExitOnExit

ExitSpec == Init /\ [][ExitNext]_vars

----------------------------------------------------------------------------
(* _simulate_hr_reading() on its own, for any reading, any time of the     *)
(* last refresh and any tick.                                              *)

SimInit ==
    /\ state \in {[InitialState EXCEPT !.is_connected = TRUE,
                                       !.heart_rate = h,
                                       !.hr_update_time = u] :
                      h \in {0, 65, 72, 79}, u \in TickValues}
    /\ io = [ticks |-> 0, pressed |-> {}]
    /\ BLUETOOTH_AVAILABLE = TRUE
    /\ call = "init"
    /\ ret = TRUE
    /\ display = NoView
    /\ ref = [state |-> InitialState, ret |-> TRUE, display |-> NoView]
    /\ press_tick = -1
    /\ refreshes = [prev |-> -1, last |-> -1]
    /\ parse = [data |-> <<>>, value |-> None]

SimulateHrReading ==
    \E now \in TickValues :
        /\ io' = [io EXCEPT !.ticks = now]
        /\ state' = _simulate_hr_reading(state, now)
        /\ call' = "_simulate_hr_reading"
        /\ UNCHANGED <<BLUETOOTH_AVAILABLE, ret, display, ref, press_tick,
                       refreshes, parse>>

SimSpec == SimInit /\ [][SimulateHrReading]_vars

----------------------------------------------------------------------------
(* The module loaded without Bluetooth: idle frames, then one frame with   *)
(* the action button pressed, then frames without the action button and    *)
(* without Home.                                                           *)

DegradedInit == Init /\ ~BLUETOOTH_AVAILABLE

DegradedWait ==
    \E now \in TickValues :
        /\ press_tick = -1
        /\ Frame({}, now)
        /\ UNCHANGED <<ref, press_tick, refreshes>>

DegradedPress ==
    \E now \in TickValues :
        /\ press_tick = -1
        /\ Frame({BUTTON_A}, now)
        /\ press_tick' = now
        /\ UNCHANGED <<ref, refreshes>>

DegradedFrame ==
    \E pressed \in SUBSET {BUTTON_B}, now \in TickValues :
        /\ press_tick >= 0
        /\ Frame(pressed, now)
        /\ UNCHANGED <<ref, press_tick, refreshes>>

DegradedNext == DegradedWait \/ DegradedPress \/ DegradedFrame

DegradedSpec == DegradedInit /\ [][DegradedNext]_vars

----------------------------------------------------------------------------
(* _parse_heart_rate() on its own, for byte sequences of up to MaxDataLen  *)
(* bytes: flags with bit 0 clear and set, with and without other bits, and *)
(* small and large values.                                                 *)

ByteValues == {0, 1, 22, 23, 66, 75, 255}

ByteSequences ==
    UNION {[1..n -> ByteValues] : n \in 0..MaxDataLen}

ParseInit ==
    /\ state = InitialState
    /\ io = [ticks |-> 0, pressed |-> {}]
    /\ BLUETOOTH_AVAILABLE = TRUE
    /\ call = "init"
    /\ ret = TRUE
    /\ display = NoView
    /\ ref = [state |-> InitialState, ret |-> TRUE, display |-> NoView]
    /\ press_tick = -1
    /\ refreshes = [prev |-> -1, last |-> -1]
    /\ parse \in {[data |-> data, value |-> None] : data \in ByteSequences}

\* The characteristic value in parse.data is handed to _parse_heart_rate.
ParseHeartRate ==
    /\ call = "init"
    /\ parse' = [parse EXCEPT !.value = _parse_heart_rate(parse.data)]
    /\ call' = "_parse_heart_rate"
    /\ UNCHANGED <<state, io, BLUETOOTH_AVAILABLE, ret, display, ref,
                   press_tick, refreshes>>

ParseSpec == ParseInit /\ [][ParseHeartRate]_vars

----------------------------------------------------------------------------
(* The frames with a record of the ticks at which update() recomputed the  *)
(* reading: the call of _simulate_hr_reading in line 125 changed the state. *)

RefreshUpdate ==
    \E pressed \in SUBSET {BUTTON_A, BUTTON_HOME}, now \in TickValues :
        LET s2 == update_scan_timeout(
                      update_buttons(state, BLUETOOTH_AVAILABLE, pressed, now), now)
            refreshed == /\ BUTTON_HOME \notin pressed
                         /\ s2.is_connected
                         /\ update_heart_rate(s2, now) # s2
        IN  /\ Frame(pressed, now)
            /\ refreshes' = IF refreshed
                            THEN [prev |-> refreshes.last, last |-> now]
                            ELSE refreshes
            /\ UNCHANGED <<ref, press_tick>>

RefreshNext == RefreshUpdate \/ OnExit

RefreshSpec == Init /\ [][RefreshNext]_vars

----------------------------------------------------------------------------
(* Invariants of the state record *)

\* C1: after any sequence of update() and on_exit() calls, is_connected and
\* is_scanning are never both true.
C1_NotConnectedAndScanning ==
    ~(state.is_connected /\ state.is_scanning)

\* A scan that ran its full duration has ended in a connection.
C1_Witness ==
    /\ call = "update"
    /\ state.is_connected
    /\ io.ticks - state.scan_start >= state.scan_duration
    /\ state.hr_update_time = state.scan_start + state.scan_duration

\* C2: heart_rate is 0 whenever is_connected is false.
C2_NoReadingUnlessConnected ==
    ~state.is_connected => state.heart_rate = 0

\* The app is idle again after a connection whose reading had been refreshed.
C2_Witness ==
    /\ ~state.is_connected
    /\ ~state.is_scanning
    /\ state.hr_update_time >= state.scan_start + state.scan_duration + HrUpdateInterval

\* C3: an update() with the action button pressed while the app is neither
\* connected nor scanning begins a scan, whether or not the Bluetooth module
\* could be imported: is_scanning is true, scan_start is the current tick and
\* devices_found is empty after the call.
C3_PressInIdleStartsScan ==
    [][(/\ call' = "update"
        /\ BUTTON_A \in io'.pressed
        /\ ~state.is_connected
        /\ ~state.is_scanning)
       => (/\ state'.is_scanning
           /\ state'.scan_start = io'.ticks
           /\ state'.devices_found = <<>>)]_vars

\* C4 (frames): an update() without Home, entered while scanning with
\* now - scan_start >= scan_duration, sets is_scanning = false, is_connected =
\* true and hr_update_time = now; no other call makes the app connected.
C4_TimeoutFrame ==
    [][/\ (/\ call' = "update"
           /\ BUTTON_HOME \notin io'.pressed
           /\ state.is_scanning
           /\ io'.ticks - state.scan_start >= state.scan_duration)
          => (/\ ~state'.is_scanning
              /\ state'.is_connected
              /\ state'.hr_update_time = io'.ticks)
       /\ (~state.is_connected /\ state'.is_connected)
          => (/\ call' = "update"
              /\ BUTTON_HOME \notin io'.pressed
              /\ state.is_scanning
              /\ io'.ticks - state.scan_start >= state.scan_duration)]_vars

\* C4 (progress): a scan whose end lies within the ticks of the model ends in
\* CONNECTED, unless the host exits the app first.
C4_ScanEnds ==
    (/\ state.is_scanning
     /\ \E t \in FairTickValues : t >= state.scan_start + state.scan_duration)
    ~> (state.is_connected \/ call = "on_exit")

\* C4: while scanning, the first update() frame without Home whose tick
\* satisfies now - scan_start >= scan_duration, and no earlier frame, moves the
\* app to CONNECTED with hr_update_time = now; with update() called again and
\* again, ticks advancing and Home not pressed, every scan ends in CONNECTED.
C4_ScanCompletes == C4_TimeoutFrame /\ C4_ScanEnds

\* A scan has just completed in a frame later than its timeout, after a frame
\* one millisecond before the timeout.
C4_Witness ==
    /\ call = "update"
    /\ state.is_connected
    /\ state.hr_update_time = io.ticks
    /\ io.ticks > state.scan_start + state.scan_duration
    /\ state.scan_start % 500 = 499

\* C5: after any update() that leaves the app connected, heart_rate is a BPM
\* value in 64 .. 80, also in the frame in which the scan completes.
C5_ConnectedHasReading ==
    (call = "update" /\ state.is_connected) => state.heart_rate \in 64..80

\* C6: an update() with the action button pressed while connected disconnects
\* and does not start a scan: is_connected is false, heart_rate is 0 and
\* is_scanning is false after the call.
C6_PressWhileConnectedDisconnects ==
    [][(/\ call' = "update"
        /\ BUTTON_A \in io'.pressed
        /\ state.is_connected)
       => (/\ ~state'.is_connected
           /\ state'.heart_rate = 0
           /\ ~state'.is_scanning)]_vars

\* With Bluetooth present a press in IDLE starts a scan, so an idle app after a
\* frame with the action button pressed has just been disconnected.
C6_Witness ==
    /\ call = "update"
    /\ BUTTON_A \in io.pressed
    /\ BLUETOOTH_AVAILABLE
    /\ ~state.is_connected
    /\ ~state.is_scanning
    /\ state.hr_update_time > 0

\* C9: update() returns false exactly in the frames whose pressed set holds
\* the Home button, in every state and whatever else is pressed.
C9_ReturnsFalseIffHome ==
    call = "update" => (ret = FALSE <=> BUTTON_HOME \in io.pressed)

\* update() returned false in a frame with every button pressed, during a scan.
C9_Witness ==
    /\ call = "update"
    /\ ret = FALSE
    /\ io.pressed = Buttons
    /\ state.is_scanning

----------------------------------------------------------------------------
(* on_exit *)

\* C8: on_exit(), in any reachable state, leaves heart_rate = 0, is_connected
\* = false and is_scanning = false, and from then on the app answers every
\* update() as an app started from the initial state answers it: the same
\* is_connected, is_scanning and heart_rate, the same return value and the
\* same drawing.
C8_ExitResetsToIdle ==
    /\ call = "on_exit"
       => (/\ state.heart_rate = 0
           /\ ~state.is_connected
           /\ ~state.is_scanning)
    /\ state.is_connected = ref.state.is_connected
    /\ state.is_scanning = ref.state.is_scanning
    /\ state.heart_rate = ref.state.heart_rate
    /\ ret = ref.ret
    /\ display = ref.display

\* After an exit from a connection the app is scanning again, its record still
\* holding the refresh time of that connection, which a fresh record lacks.
C8_Witness ==
    /\ call = "update"
    /\ state.is_scanning
    /\ display.progress_bar_w > 0
    /\ state.hr_update_time > 0
    /\ ref.state.hr_update_time = 0

----------------------------------------------------------------------------
(* Simulation *)

\* C7: with the Bluetooth module missing, an action-button press in IDLE
\* followed by update() frames without Home brings the app to CONNECTED once
\* the ticks have advanced by at least 3000 ms since the press.
C7_DegradedScanConnects ==
    (press_tick >= 0 /\ io.ticks - press_tick >= InitialState.scan_duration)
        => (state.is_connected /\ display.view = "connected")

\* C10: for every tick now, _simulate_hr_reading changes heart_rate and
\* hr_update_time only when now - hr_update_time >= 500 and then sets
\* hr_update_time to now; when now - hr_update_time < 500 it leaves the whole
\* record unchanged, and calling it again at the same tick changes nothing.
C10_SimulateWindow ==
    [][call' = "_simulate_hr_reading"
       => LET now == io'.ticks
          IN  /\ now - state.hr_update_time < 500 => state' = state
              /\ (\/ state'.heart_rate # state.heart_rate
                  \/ state'.hr_update_time # state.hr_update_time)
                 => now - state.hr_update_time >= 500
              /\ now - state.hr_update_time >= 500
                 => state'.hr_update_time = now
              /\ _simulate_hr_reading(state', now) = state']_vars

\* A call one millisecond before the end of the window has left the record as
\* it was.
C10_Witness ==
    /\ call = "_simulate_hr_reading"
    /\ io.ticks - state.hr_update_time = 499

----------------------------------------------------------------------------
(* Parsing *)

\* C11: for every byte sequence data, _parse_heart_rate(data) is the decoding
\* of the Heart Rate Measurement characteristic: no value when data has fewer
\* than 2 bytes, or when bit 0 of byte 0 is set and data has fewer than 3
\* bytes; otherwise byte 1 when bit 0 of byte 0 is clear and byte 1 + 256 *
\* byte 2 when it is set, whatever the other flag bits and the trailing bytes.
C11_ParseIsReferenceDecoding ==
    call = "_parse_heart_rate"
        => LET data == parse.data
               n == Len(data)
               sixteen == n >= 1 /\ data[1] % 2 = 1
           IN  /\ (n < 2 \/ (sixteen /\ n < 3)) => parse.value = None
               /\ (n >= 2 /\ ~sixteen) => parse.value = data[2]
               /\ (n >= 3 /\ sixteen) => parse.value = data[2] + 256 * data[3]

\* A 16-bit value above 255 has been read from a sequence with other flag
\* bits set and a trailing byte.
C11_Witness ==
    /\ call = "_parse_heart_rate"
    /\ Len(parse.data) = 4
    /\ parse.data[1] = 23
    /\ parse.value = 66 + 256 * 75

----------------------------------------------------------------------------
(* The refresh of the reading *)

\* C12 (frames): an update() frame without Home that is connected after its
\* scan-timeout check, with now - hr_update_time >= 500 for the hr_update_time
\* that check leaves, recomputes the reading and sets hr_update_time to now.
C12_RefreshWhenDue ==
    [][LET now == io'.ticks
           s2 == update_scan_timeout(
                     update_buttons(state, BLUETOOTH_AVAILABLE, io'.pressed, now),
                     now)
       IN  (/\ call' = "update"
            /\ BUTTON_HOME \notin io'.pressed
            /\ s2.is_connected
            /\ now - s2.hr_update_time >= 500)
           => (/\ state'.is_connected
               /\ state'.hr_update_time = now
               /\ state'.heart_rate = 72 + variation(now)
               /\ display'.hr_text = state'.heart_rate
               /\ refreshes'.last = now)]_vars

\* C12 (spacing): two consecutive recomputations of the reading are at least
\* 500 ms apart.
C12_RefreshesApart ==
    [](refreshes.prev >= 0 => refreshes.last - refreshes.prev >= 500)

\* C12: while connected the reading is refreshed every 500 ms whatever the
\* frame rate: every frame without Home that ends connected with
\* now - hr_update_time >= 500 recomputes it and sets hr_update_time to now,
\* and two consecutive refreshes are never less than 500 ms apart.
C12_RefreshEvery500 == C12_RefreshWhenDue /\ C12_RefreshesApart

\* The reading has been recomputed twice, exactly 500 ms apart, the first time
\* 500 ms after the scan completed at an odd tick.
C12_Witness ==
    /\ call = "update"
    /\ state.is_connected
    /\ refreshes.last = io.ticks
    /\ refreshes.last - refreshes.prev = 500
    /\ refreshes.prev = state.scan_start + state.scan_duration + 1 + 500

----------------------------------------------------------------------------
(* The views *)

\* C13: every update() frame that returns true renders exactly one of the
\* connected, scanning and idle views, the one of the state as it stands after
\* the frame's button handling and scan-timeout check: the frame in which the
\* scan completes renders the connected view, the frame in which the user
\* disconnects renders the idle view.
C13_ViewOfStateAfterFrame ==
    [][(call' = "update" /\ ret' = TRUE)
       => (/\ display'.view \in {"connected", "scanning", "idle"}
           /\ display'.view = "connected" <=> state'.is_connected
           /\ display'.view = "scanning" <=> state'.is_scanning
           /\ display'.view = "idle"
                  <=> (~state'.is_connected /\ ~state'.is_scanning)
           /\ (state.is_scanning /\ state'.is_connected)
                  => display'.view = "connected"
           /\ (state.is_connected /\ ~state'.is_connected)
                  => display'.view = "idle")]_vars

\* The frame that completed the scan drew the connected view, with the reading
\* the state holds.
C13_Witness ==
    /\ call = "update"
    /\ ret = TRUE
    /\ display.view = "connected"
    /\ state.hr_update_time = io.ticks
    /\ state.heart_rate = 0
    /\ display.hr_text = 0

\* C14: whenever the scanning view is rendered, the width of the progress bar,
\* floor(140 * (now - scan_start) / scan_duration), is in 0 .. 139.
C14_ProgressBarWithinWidth ==
    (call = "update" /\ display.view = "scanning")
        => display.progress_bar_w \in 0..(ProgressBarWidth - 1)

\* The scanning view has been drawn one millisecond before the timeout, with
\* the widest bar.
C14_Witness ==
    /\ call = "update"
    /\ display.view = "scanning"
    /\ io.ticks - state.scan_start = state.scan_duration - 1
    /\ display.progress_bar_w = 139

----------------------------------------------------------------------------
(* The buttons during a scan and in a frame with Home *)

\* C15: an action-button press while scanning has no effect: the frame leaves
\* the state, and returns and draws, exactly as the same frame without the
\* press; the scan is neither cancelled nor restarted, scan_start and
\* devices_found stay, and the scan still completes at scan_start + 3000 ms.
C15_PressWhileScanningIgnored ==
    [][(/\ call' = "update"
        /\ BUTTON_A \in io'.pressed
        /\ state.is_scanning)
       => LET now == io'.ticks
              r == update(state, BLUETOOTH_AVAILABLE,
                          io'.pressed \ {BUTTON_A}, now)
          IN  /\ state' = r.state
              /\ ret' = r.ret
              /\ display' = r.display
              /\ state'.scan_start = state.scan_start
              /\ state'.devices_found = state.devices_found
              /\ state'.heart_rate = 0
              /\ \/ state'.is_scanning /\ ~state'.is_connected
                 \/ /\ state'.is_connected /\ ~state'.is_scanning
                    /\ BUTTON_HOME \notin io'.pressed
                    /\ now - state.scan_start >= state.scan_duration]_vars

\* A frame with the action button pressed, later than the frame that started
\* the scan, has left the app scanning.
C15_Witness ==
    /\ call = "update"
    /\ BUTTON_A \in io.pressed
    /\ state.is_scanning
    /\ io.ticks > state.scan_start

\* C16: in an update() frame with Home pressed the action button is still
\* handled before false is returned (a scan is started from IDLE, a connected
\* app is disconnected), but the scan timeout and the refresh of the reading
\* are skipped: a scan stays a scan whatever its elapsed time, and
\* hr_update_time and heart_rate are not refreshed.
C16_HomeFrameHandlesActionOnly ==
    [][(call' = "update" /\ BUTTON_HOME \in io'.pressed)
       => LET pressA == BUTTON_A \in io'.pressed
          IN  /\ ret' = FALSE
              /\ (pressA /\ ~state.is_connected /\ ~state.is_scanning)
                 => (state'.is_scanning /\ state'.scan_start = io'.ticks)
              /\ (pressA /\ state.is_connected)
                 => (~state'.is_connected /\ state'.heart_rate = 0)
              /\ state.is_scanning
                 => (state'.is_scanning /\ ~state'.is_connected)
              /\ state'.hr_update_time = state.hr_update_time
              /\ ~(pressA /\ state.is_connected)
                 => state'.heart_rate = state.heart_rate]_vars

====
